---- MODULE Spec2Model ----
(***************************************************************************)
(* Model of the structured-logging facade of practionnetworks/logger.      *)
(*                                                                         *)
(* config.go   : Config, NewLogger (the configuration builder)             *)
(* logging.go  : InitLogger, the leveled functions taking ...Field         *)
(* part_000    : another revision of logging.go: parseLogLevel,            *)
(*               logWithFields and the leveled functions taking            *)
(*               ...interface{}                                            *)
(*                                                                         *)
(* The two revisions of logging.go declare the same names, so a build      *)
(* holds one of them: rev says which.                                      *)
(*                                                                         *)
(* A log level string is a sequence of one-letter strings, so that         *)
(* strings.ToLower / strings.ToUpper are computed letter by letter.        *)
(***************************************************************************)
EXTENDS Integers, Sequences, FiniteSets, TLC

VARIABLES
    rev,          \* which revision of logging.go is built: "typed" | "variadic"
    alive,        \* FALSE once the process has exited (os.Exit) or died of a panic
    initialized,  \* logging.go:17  var initialized bool
    logger,       \* zerolog's log.Logger: [writers, level, context]
    written,      \* per sink, the records the last call wrote to it
    last,         \* the last call: its name, arguments and outcome
    firstCfg,     \* the Config of the InitLogger call that set initialized
    fallback,     \* that call took the "default to stdout" branch (logging.go:79-82)
    built,        \* the value NewLogger returned last: [cfg, err]
    pc,           \* concurrent InitLogger calls: each goroutine's position
    loc           \* concurrent InitLogger calls: each goroutine's locals

vars == <<rev, alive, initialized, logger, written, last, firstCfg, fallback, built, pc, loc>>

(***************************************************************************)
(* Bounds                                                                  *)
(***************************************************************************)
\* longest variadic field list of a logging call (half as many Field structs)
MaxFields == 4
\* number of goroutines calling InitLogger concurrently
NumProcs == 2

(***************************************************************************)
(* Strings                                                                 *)
(***************************************************************************)
LowerLetters == <<"a","b","c","d","e","f","g","h","i","j","k","l","m",
                  "n","o","p","q","r","s","t","u","v","w","x","y","z">>
UpperLetters == <<"A","B","C","D","E","F","G","H","I","J","K","L","M",
                  "N","O","P","Q","R","S","T","U","V","W","X","Y","Z">>

LetterIndex(tbl, c) == CHOOSE i \in 1..Len(tbl) : tbl[i] = c
IsIn(tbl, c) == \E i \in 1..Len(tbl) : tbl[i] = c

LowerOf(c) == IF IsIn(UpperLetters, c) THEN LowerLetters[LetterIndex(UpperLetters, c)] ELSE c
UpperOf(c) == IF IsIn(LowerLetters, c) THEN UpperLetters[LetterIndex(LowerLetters, c)] ELSE c

\* strings.ToLower, strings.ToUpper
ToLower(s) == [i \in 1..Len(s) |-> LowerOf(s[i])]
ToUpper(s) == [i \in 1..Len(s) |-> UpperOf(s[i])]

(***************************************************************************)
(* Levels (zerolog.TraceLevel < DebugLevel < ... < PanicLevel)             *)
(***************************************************************************)
Levels == {"trace", "debug", "info", "warn", "error", "fatal", "panic"}

LevelNum(l) ==
    CASE l = "trace" -> 0
      [] l = "debug" -> 1
      [] l = "info"  -> 2
      [] l = "warn"  -> 3
      [] l = "error" -> 4
      [] l = "fatal" -> 5
      [] l = "panic" -> 6

\* (the switch on the string as given, not lowered)
LevelSwitchNoFold(s) ==
    LET t == s IN
    CASE t = <<"d","e","b","u","g">> -> "debug"
      [] t = <<"i","n","f","o">>     -> "info"
      [] t = <<"w","a","r","n">>     -> "warn"
      [] t = <<"e","r","r","o","r">> -> "error"
      [] t = <<"f","a","t","a","l">> -> "fatal"
      [] t = <<"p","a","n","i","c">> -> "panic"
      [] t = <<"t","r","a","c","e">> -> "trace"
      [] OTHER                       -> "info"

\* logging.go:86-104, the switch on strings.ToLower(config.LogLevel)
LevelSwitch(s) ==
    LET t == ToLower(s) IN
    CASE t = <<"d","e","b","u","g">> -> "debug"
      [] t = <<"i","n","f","o">>     -> "info"
      [] t = <<"w","a","r","n">>     -> "warn"
      [] t = <<"e","r","r","o","r">> -> "error"
      [] t = <<"f","a","t","a","l">> -> "fatal"
      [] t = <<"p","a","n","i","c">> -> "panic"
      [] t = <<"t","r","a","c","e">> -> "trace"
      [] OTHER                       -> "info"

\* part_000:280-299
parseLogLevel(level) ==
    LET t == ToUpper(level) IN
    CASE t = <<"D","E","B","U","G">> -> "debug"
      [] t = <<"I","N","F","O">>     -> "info"
      [] t = <<"W","A","R","N">>     -> "warn"
      [] t = <<"E","R","R","O","R">> -> "error"
      [] t = <<"F","A","T","A","L">> -> "fatal"
      [] t = <<"P","A","N","I","C">> -> "panic"
      [] t = <<"T","R","A","C","E">> -> "trace"
      [] OTHER                       -> "info"

\* the level InitLogger computes: logging.go:85-104, part_000:264
ConfiguredLevel(r, s) == IF r = "typed" THEN LevelSwitch(s) ELSE parseLogLevel(s)

(***************************************************************************)
(* config.go                                                               *)
(***************************************************************************)
\* Config{}, the zero value
ZeroConfig ==
    [ServiceName |-> "", Pod |-> "", LogLevel |-> <<>>, LogAnalyserAddress |-> "",
     LogAnalyserEnabled |-> FALSE, Console |-> FALSE, LogFilePath |-> ""]

ErrNoOutput == "at least one logging option (Console, LogFile, LogAnalyserAddress) must be selected"
ErrNoIdentity == "service name and PodName must be provided"

\* config.go:19-37
NewLogger(serviceName, console, pod, logFilePath, logAnalyserAddress, logLevel, LogAnalyserEnabled) ==
    IF ~console /\ logFilePath = "" /\ logAnalyserAddress = ""
    THEN [cfg |-> ZeroConfig, err |-> ErrNoOutput]
    ELSE IF serviceName = "" /\ pod = ""
    THEN [cfg |-> ZeroConfig, err |-> ErrNoIdentity]
    ELSE [cfg |-> [ServiceName |-> serviceName, Pod |-> pod, LogLevel |-> logLevel,
                   LogAnalyserAddress |-> logAnalyserAddress,
                   LogAnalyserEnabled |-> LogAnalyserEnabled,
                   Console |-> console, LogFilePath |-> logFilePath],
          err |-> "nil"]

(***************************************************************************)
(* Inputs                                                                  *)
(***************************************************************************)
ServiceNames == {"", "svc"}
Pods == {"", "pod-1"}
FilePaths == {"", "/var/log/app.log"}
Addresses == {"", "logstash:5000"}

\* level strings tried by the lifecycle specification
LevelSample ==
    { <<"v","e","r","b","o","s","e">>,
      <<"t","r","a","c","e">>,
      <<"D","e","b","u","g">>,
      <<"I","N","F","O">>,
      <<"W","A","R","N">>,
      <<"e","r","r","o","r">>,
      <<"F","a","t","a","l">>,
      <<"p","a","n","i","C">> }

ConfigsOver(levelStrings) ==
    [ServiceName : ServiceNames, Pod : Pods, LogLevel : levelStrings,
     LogAnalyserAddress : Addresses, LogAnalyserEnabled : BOOLEAN,
     Console : BOOLEAN, LogFilePath : FilePaths]

Configs == ConfigsOver(LevelSample)

(***************************************************************************)
(* zerolog: the logger value, events and writers                           *)
(***************************************************************************)
Sinks == {"stdout", "stderr", "file", "logstash"}

\* zerolog/log's package-level Logger before InitLogger replaces it:
\* zerolog.New(os.Stderr).With().Timestamp().Logger(), level TraceLevel
DefaultLogger == [writers |-> <<"stderr">>, level |-> "trace", context |-> <<>>]

NoError == [attached |-> FALSE, msg |-> "", stack |-> FALSE]

\* (the comparison turned round)
shouldInverted(lg, lvl) == LevelNum(lvl) <= LevelNum(lg.level)

\* Logger.should: an event of level lvl is enabled
should(lg, lvl) == LevelNum(lvl) >= LevelNum(lg.level)

\* the record an enabled event serialises
Record(lg, lvl, msg, fields, err) ==
    [level |-> lvl, message |-> msg, fields |-> fields, error |-> err,
     context |-> lg.context]

\* (an event written whatever its level)
EmittedUnfiltered(lg, lvl, msg, fields, err) == << Record(lg, lvl, msg, fields, err) >>

\* Event.Msg: the records handed to the logger's writer
Emitted(lg, lvl, msg, fields, err) ==
    IF should(lg, lvl) THEN << Record(lg, lvl, msg, fields, err) >> ELSE << >>

\* io.MultiWriter's Write: Write is called on the sinks in order and the loop
\* stops at the first whose Write fails (failAt; 0 when none fails), so the
\* sinks after that one are not written
MultiWrite(writers, recs, failAt) ==
    [s \in Sinks |->
        IF \E i \in 1..Len(writers) : writers[i] = s /\ (failAt = 0 \/ i <= failAt)
        THEN recs ELSE << >>]

\* Logger.Output(w): same level and context, new writer
Output(lg, w) == [lg EXCEPT !.writers = << w >>]

NothingWritten == [s \in Sinks |-> << >>]

(***************************************************************************)
(* logging.go: InitLogger                                                  *)
(***************************************************************************)
\* (the guard left out)
AlwaysReinitialize == FALSE

\* logging.go:37
AlreadyInitialized == initialized

\* logging.go:46-51
WithConsole(config, writers) ==
    IF config.Console THEN Append(writers, "stdout") ELSE writers

\* logging.go:54-59 (the open succeeded)
WithFile(config, writers) ==
    IF config.LogFilePath # "" THEN Append(writers, "file") ELSE writers

\* logging.go:65-73 (the dial succeeded)
WithAnalyser(config, writers) ==
    IF config.LogAnalyserEnabled THEN Append(writers, "logstash") ELSE writers

\* logging.go:44-73
ComposeWriters(config) == WithAnalyser(config, WithFile(config, WithConsole(config, << >>)))

\* logging.go:76-82
CombinedWriter(writers) == IF Len(writers) > 0 THEN writers ELSE << "stdout" >>

\* logging.go:107-115
BuildLogger(r, config, multiWriter) ==
    [writers |-> multiWriter,
     level   |-> ConfiguredLevel(r, config.LogLevel),
     context |-> << <<"service", config.ServiceName>>, <<"pod", config.Pod>> >>]

\* net.Dial("tcp", "") cannot succeed
DialPossible(config, dialOK) == dialOK => config.LogAnalyserAddress # ""

Call(op, lvl, msg, fields, err, emitted, failAt, outcome, note) ==
    [op |-> op, level |-> lvl, message |-> msg, fields |-> fields, err |-> err,
     emitted |-> emitted, failAt |-> failAt, outcome |-> outcome, note |-> note]

NoCall == Call("none", "", "", << >>, "", << >>, 0, "return", "")

\* the caller is between calls: the previous call has returned and been observed
Idle == alive /\ last = NoCall

WarnAlready == "Logger already initialized, skipping re-initialization"

\* logging.go:36-40
InitLoggerAgain(config, failAt) ==
    /\ Idle
    /\ AlreadyInitialized
    /\ LET em == Emitted(logger, "warn", WarnAlready, << >>, NoError) IN
       /\ failAt \in 0..(IF em = << >> THEN 0 ELSE Len(logger.writers))
       /\ written' = MultiWrite(logger.writers, em, failAt)
       /\ last' = Call("InitLogger", "warn", WarnAlready, << >>, "", em, failAt, "return",
                       IF config = firstCfg THEN "already-same" ELSE "already-other")
    /\ UNCHANGED <<rev, alive, initialized, logger, firstCfg, fallback, built, pc, loc>>

\* logging.go:54-58, the open failed: log.Fatal() through the default logger
InitLoggerOpenFails(config) ==
    /\ Idle
    /\ ~AlreadyInitialized
    /\ config.LogFilePath # ""
    /\ LET em == Emitted(logger, "fatal", "Failed to open log file", << >>,
                         [attached |-> TRUE, msg |-> "open", stack |-> FALSE]) IN
       /\ written' = MultiWrite(logger.writers, em, 0)
       /\ last' = Call("InitLogger", "fatal", "Failed to open log file", << >>, "open",
                       em, 0, "exit", "open-failed")
    /\ alive' = FALSE
    /\ UNCHANGED <<rev, initialized, logger, firstCfg, fallback, built, pc, loc>>

\* the logger in force while the collector is dialled: logging.go:62
LoggerAfterFile(config) ==
    IF config.LogFilePath # "" THEN Output(logger, "file") ELSE logger

\* logging.go:65-70, the dial failed: log.Fatal() through the logger of line 62
InitLoggerDialFails(config) ==
    /\ Idle
    /\ ~AlreadyInitialized
    /\ config.LogAnalyserEnabled
    /\ LET lg == LoggerAfterFile(config)
           em == Emitted(lg, "fatal", "Failed to create Logstash writer", << >>,
                         [attached |-> TRUE, msg |-> "dial", stack |-> FALSE]) IN
       /\ logger' = lg
       /\ written' = MultiWrite(lg.writers, em, 0)
       /\ last' = Call("InitLogger", "fatal", "Failed to create Logstash writer", << >>,
                       "dial", em, 0, "exit", "dial-failed")
    /\ alive' = FALSE
    /\ UNCHANGED <<rev, initialized, firstCfg, fallback, built, pc, loc>>

\* logging.go:36-118, every open and dial succeeding
InitLoggerFresh(config) ==
    /\ Idle
    /\ ~AlreadyInitialized
    /\ DialPossible(config, config.LogAnalyserEnabled)
    /\ LET writers == ComposeWriters(config) IN
       /\ logger' = BuildLogger(rev, config, CombinedWriter(writers))
       /\ fallback' = (Len(writers) = 0)
    /\ initialized' = TRUE
    /\ firstCfg' = IF initialized THEN firstCfg ELSE config
    /\ written' = NothingWritten
    /\ last' = Call("InitLogger", "", "", << >>, "", << >>, 0, "return", "fresh")
    /\ UNCHANGED <<rev, alive, built, pc, loc>>

InitLogger(config) ==
    \/ \E failAt \in 0..Len(logger.writers) : InitLoggerAgain(config, failAt)
    \/ InitLoggerOpenFails(config)
    \/ InitLoggerDialFails(config)
    \/ InitLoggerFresh(config)

(***************************************************************************)
(* Leveled logging, common parts                                           *)
(***************************************************************************)
Messages == {"msg"}
Errors == {"boom"}

\* the levels that have a ...WithError function (logging.go:175-213, part_000:347-365)
WithErrorLevels == {"warn", "error", "fatal", "panic", "trace"}

\* what the process does after the call: alive' and the rest of a logging step
Finish(op, lvl, msg, fields, err, em, failAt, outcome, recovered) ==
    /\ failAt \in 0..(IF em = << >> THEN 0 ELSE Len(logger.writers))
    /\ recovered \in (IF outcome = "panic" THEN BOOLEAN ELSE {TRUE})
    /\ written' = MultiWrite(logger.writers, em, failAt)
    /\ last' = Call(op, lvl, msg, fields, err, em, failAt, outcome, "")
    /\ alive' = CASE outcome = "return" -> TRUE
                  [] outcome = "exit"   -> FALSE
                  [] outcome = "panic"  -> recovered
    /\ UNCHANGED <<rev, initialized, logger, firstCfg, fallback, built, pc, loc>>

(***************************************************************************)
(* logging.go: the functions taking ...Field                               *)
(***************************************************************************)
\* logging.go:216-219
FieldStructs == { [Key |-> "k1", Value |-> "v1"], [Key |-> "k2", Value |-> "v2"] }

SeqsUpTo(S, n) == UNION { [1..m -> S] : m \in 0..n }

TypedFieldLists == SeqsUpTo(FieldStructs, MaxFields \div 2)

\* logging.go:121-123: event.Str(field.Key, field.Value) for each field
StrFields(fields) == [i \in 1..Len(fields) |-> [key |-> fields[i].Key, val |-> fields[i].Value]]

\* zerolog's log.Fatal() exits and log.Panic() panics once the event is done,
\* enabled or not; the other levels return
TypedOutcome(lvl) ==
    CASE lvl = "fatal" -> "exit"
      [] lvl = "panic" -> "panic"
      [] OTHER         -> "return"

\* logging.go:119-173: Info, Debug, Warn, Error, Fatal, Panic, Trace
TypedLeveled(lvl, message, fields, failAt, recovered) ==
    /\ Idle
    /\ rev = "typed"
    /\ Finish("Leveled", lvl, message, fields, "",
              Emitted(logger, lvl, message, StrFields(fields), NoError),
              failAt, TypedOutcome(lvl), recovered)

\* logging.go:176: .Stack().Err(errors.WithStack(err))
StackErr(err) == [attached |-> TRUE, msg |-> err, stack |-> TRUE]

\* logging.go:175-213: WarnWithError, ErrorWithError, FatalWithError,
\* PanicWithError, TraceWithError
TypedWithError(lvl, err, fields, failAt, recovered) ==
    /\ Idle
    /\ rev = "typed"
    /\ lvl \in WithErrorLevels
    /\ Finish("WithError", lvl, err, fields, err,
              Emitted(logger, lvl, err, StrFields(fields), StackErr(err)),
              failAt, TypedOutcome(lvl), recovered)

(***************************************************************************)
(* part_000: logWithFields and the functions taking ...interface{}         *)
(***************************************************************************)
\* an interface{} value: its dynamic type and its value
StringValue(x) == [t |-> "string", v |-> x]
IntValue(x) == [t |-> "int", v |-> x]
\* errors.WithStack(err)
ErrorValue(e) == [t |-> "error", v |-> e]

Values == { StringValue("k"), StringValue("v"), IntValue("42") }

VariadicLists == SeqsUpTo(Values, MaxFields)

ErrUneven == "uneven number of key-value pairs"
ErrNotStrings == "key-value pairs must be strings"

FieldsError(why) == [key |-> "fields_error", val |-> why]

\* (a loop that forgets the fields attached so far when it meets a bad pair)
RECURSIVE PairLoopDropsPrefix(_, _, _)
PairLoopDropsPrefix(fields, i, acc) ==
    IF i > Len(fields) THEN acc
    ELSE IF fields[i].t = "string" /\ fields[i + 1].t = "string"
         THEN PairLoopDropsPrefix(fields, i + 2,
                                  Append(acc, [key |-> fields[i].v, val |-> fields[i + 1].v]))
         ELSE << FieldsError(ErrNotStrings) >>

\* part_000:305-314, the loop from index i with the fields attached so far
RECURSIVE PairLoop(_, _, _)
PairLoop(fields, i, acc) ==
    IF i > Len(fields) THEN acc
    ELSE IF fields[i].t = "string" /\ fields[i + 1].t = "string"
         THEN PairLoop(fields, i + 2, Append(acc, [key |-> fields[i].v, val |-> fields[i + 1].v]))
         ELSE Append(acc, FieldsError(ErrNotStrings))

\* (an attachment without the length check: a trailing key is skipped)
AttachFieldsNoLengthCheck(fields) ==
    PairLoop(SubSeq(fields, 1, 2 * (Len(fields) \div 2)), 1, << >>)

\* part_000:302-315: the fields the event carries
AttachFields(fields) ==
    IF Len(fields) % 2 # 0
    THEN << FieldsError(ErrUneven) >>
    ELSE PairLoop(fields, 1, << >>)

\* part_000:300-317: the records the call hands to the logger's writer
logWithFields(level, message, fields) ==
    Emitted(logger, level, message, AttachFields(fields), NoError)

\* part_000:319-345: Info, Debug, Warn, Error, Fatal, Panic, Trace;
\* log.WithLevel neither exits nor panics
VariadicLeveled(lvl, message, fields, failAt) ==
    /\ Idle
    /\ rev = "variadic"
    /\ Finish("Leveled", lvl, message, fields, "",
              logWithFields(lvl, message, fields), failAt, "return", TRUE)

\* part_000:348: append(fields, "error", errors.WithStack(err))
WithErrorFields(err, fields) == fields \o << StringValue("error"), ErrorValue(err) >>

\* part_000:347-365
VariadicWithError(lvl, err, fields, failAt) ==
    /\ Idle
    /\ rev = "variadic"
    /\ lvl \in WithErrorLevels
    /\ Finish("WithError", lvl, err, fields, err,
              logWithFields(lvl, err, WithErrorFields(err, fields)), failAt, "return", TRUE)

(***************************************************************************)
(* Specifications                                                          *)
(***************************************************************************)
Procs == 1..NumProcs

Init ==
    /\ rev \in {"typed", "variadic"}
    /\ alive = TRUE
    /\ initialized = FALSE
    /\ logger = DefaultLogger
    /\ written = NothingWritten
    /\ last = NoCall
    /\ firstCfg = ZeroConfig
    /\ fallback = FALSE
    /\ built = [cfg |-> ZeroConfig, err |-> "not called"]
    /\ pc = [p \in Procs |-> "idle"]
    /\ loc = [p \in Procs |-> [config |-> ZeroConfig, writers |-> << >>]]

FailPoints == 0..Cardinality(Sinks)

\* the field lists tried by the lifecycle specification
FewTypedLists == { << >>, << [Key |-> "k1", Value |-> "v1"] >> }
FewVariadicLists ==
    { << >>, << StringValue("k"), StringValue("v") >>, << StringValue("k"), IntValue("42") >> }

\* A call on an initialized logger returns at logging.go:37-40 without reading
\* its argument: three arguments stand for all of them there
ConfigsTried(all) ==
    IF initialized
    THEN { firstCfg, ZeroConfig,
           [ServiceName |-> "other", Pod |-> "pod-2", LogLevel |-> <<"t","r","a","c","e">>,
            LogAnalyserAddress |-> "logstash:5000", LogAnalyserEnabled |-> TRUE,
            Console |-> TRUE, LogFilePath |-> "/var/log/other.log"] }
    ELSE all

\* the caller takes note of the last call's outcome and goes on
Return ==
    /\ alive
    /\ last # NoCall
    /\ last' = NoCall
    /\ written' = NothingWritten
    /\ UNCHANGED <<rev, alive, initialized, logger, firstCfg, fallback, built, pc, loc>>

\* The facade's life: InitLogger with every configuration, then logging
Next ==
    \/ Return
    \/ \E c \in ConfigsTried(Configs) : InitLogger(c)
    \/ Idle /\ \E lvl \in Levels, m \in Messages, f \in FewTypedLists, k \in FailPoints, r \in BOOLEAN :
          TypedLeveled(lvl, m, f, k, r)
    \/ Idle /\ \E lvl \in Levels, e \in Errors, f \in FewTypedLists, k \in FailPoints, r \in BOOLEAN :
          TypedWithError(lvl, e, f, k, r)
    \/ Idle /\ \E lvl \in Levels, m \in Messages, f \in FewVariadicLists, k \in FailPoints :
          VariadicLeveled(lvl, m, f, k)
    \/ Idle /\ \E lvl \in Levels, e \in Errors, f \in FewVariadicLists, k \in FailPoints :
          VariadicWithError(lvl, e, f, k)

Spec == Init /\ [][Next]_vars

(***************************************************************************)
(* The configuration builder alone (SpecConfig)                            *)
(***************************************************************************)
\* a call of NewLogger; its arguments and result are kept
NewLoggerCall(serviceName, console, pod, logFilePath, logAnalyserAddress, logLevel, enabled) ==
    /\ alive
    /\ built' = NewLogger(serviceName, console, pod, logFilePath, logAnalyserAddress,
                          logLevel, enabled)
    /\ last' = [op |-> "NewLogger",
                args |-> [serviceName |-> serviceName, console |-> console, pod |-> pod,
                          logFilePath |-> logFilePath,
                          logAnalyserAddress |-> logAnalyserAddress,
                          logLevel |-> logLevel, LogAnalyserEnabled |-> enabled]]
    /\ UNCHANGED <<rev, alive, initialized, logger, written, firstCfg, fallback, pc, loc>>

NextConfig ==
    \E sn \in ServiceNames, co \in BOOLEAN, po \in Pods, fp \in FilePaths,
       ad \in Addresses, ll \in LevelSample, en \in BOOLEAN :
          NewLoggerCall(sn, co, po, fp, ad, ll, en)

SpecConfig == Init /\ [][NextConfig]_vars

(***************************************************************************)
(* The level string in every letter case (SpecLevel)                       *)
(***************************************************************************)
\* the letters of each level name, in both cases
NameLetters(name) ==
    CASE name = "trace" -> << {"t","T"}, {"r","R"}, {"a","A"}, {"c","C"}, {"e","E"} >>
      [] name = "debug" -> << {"d","D"}, {"e","E"}, {"b","B"}, {"u","U"}, {"g","G"} >>
      [] name = "info"  -> << {"i","I"}, {"n","N"}, {"f","F"}, {"o","O"} >>
      [] name = "warn"  -> << {"w","W"}, {"a","A"}, {"r","R"}, {"n","N"} >>
      [] name = "error" -> << {"e","E"}, {"r","R"}, {"r","R"}, {"o","O"}, {"r","R"} >>
      [] name = "fatal" -> << {"f","F"}, {"a","A"}, {"t","T"}, {"a","A"}, {"l","L"} >>
      [] name = "panic" -> << {"p","P"}, {"a","A"}, {"n","N"}, {"i","I"}, {"c","C"} >>

\* s spells name in some letter case
Spells(s, name) ==
    LET ls == NameLetters(name) IN
    Len(s) = Len(ls) /\ \A i \in 1..Len(ls) : s[i] \in ls[i]

\* every spelling that takes one letter of each pair, from position i on
RECURSIVE Spellings(_, _)
Spellings(ls, i) ==
    IF i > Len(ls) THEN { << >> }
    ELSE { << c >> \o t : c \in ls[i], t \in Spellings(ls, i + 1) }

CaseVariants(name) == Spellings(NameLetters(name), 1)

\* strings that name no level
Unrecognized ==
    { << >>,
      <<"v","e","r","b","o","s","e">>,
      <<"w","a","r","n","i","n","g">>,
      <<"W","A","R">>,
      <<"i","n","f","o"," ">>,
      <<" ","d","e","b","u","g">>,
      <<"e","r","r">>,
      <<"o","f","f">>,
      <<"1">> }

AllLevelStrings == Unrecognized \cup UNION { CaseVariants(n) : n \in Levels }

LevelConfigs ==
    [ServiceName : {"svc"}, Pod : {"pod-1"}, LogLevel : AllLevelStrings,
     LogAnalyserAddress : {""}, LogAnalyserEnabled : {FALSE},
     Console : {TRUE}, LogFilePath : {""}]

NextLevel ==
    \/ Return
    \/ \E c \in ConfigsTried(LevelConfigs) : InitLogger(c)

SpecLevel == Init /\ [][NextLevel]_vars

(***************************************************************************)
(* Field lists of every shape (SpecFields)                                 *)
(***************************************************************************)
FieldConfigs ==
    { [ServiceName |-> "svc", Pod |-> "pod-1", LogLevel |-> <<"d","e","b","u","g">>,
       LogAnalyserAddress |-> "", LogAnalyserEnabled |-> FALSE,
       Console |-> TRUE, LogFilePath |-> ""],
      [ServiceName |-> "svc", Pod |-> "", LogLevel |-> <<"E","r","r","o","r">>,
       LogAnalyserAddress |-> "logstash:5000", LogAnalyserEnabled |-> TRUE,
       Console |-> TRUE, LogFilePath |-> "/var/log/app.log"] }

NextFields ==
    \/ Return
    \/ \E c \in ConfigsTried(FieldConfigs) : InitLogger(c)
    \/ Idle /\ \E lvl \in Levels, m \in Messages, f \in TypedFieldLists, k \in FailPoints, r \in BOOLEAN :
          TypedLeveled(lvl, m, f, k, r)
    \/ Idle /\ \E lvl \in Levels, e \in Errors, f \in TypedFieldLists, k \in FailPoints, r \in BOOLEAN :
          TypedWithError(lvl, e, f, k, r)
    \/ Idle /\ \E lvl \in Levels, m \in Messages, f \in VariadicLists, k \in FailPoints :
          VariadicLeveled(lvl, m, f, k)
    \/ Idle /\ \E lvl \in Levels, e \in Errors, f \in VariadicLists, k \in FailPoints :
          VariadicWithError(lvl, e, f, k)

SpecFields == Init /\ [][NextFields]_vars

(***************************************************************************)
(* InitLogger called from several goroutines (SpecConc)                    *)
(*                                                                         *)
(* logging.go takes no lock: each statement of InitLogger is a step, and   *)
(* the steps of the goroutines interleave. Every open and dial succeeds.   *)
(***************************************************************************)
ConcConfigs ==
    { [ServiceName |-> "svc", Pod |-> "pod-1", LogLevel |-> <<"i","n","f","o">>,
       LogAnalyserAddress |-> "", LogAnalyserEnabled |-> FALSE,
       Console |-> TRUE, LogFilePath |-> ""],
      [ServiceName |-> "svc", Pod |-> "pod-1", LogLevel |-> <<"d","e","b","u","g">>,
       LogAnalyserAddress |-> "", LogAnalyserEnabled |-> FALSE,
       Console |-> FALSE, LogFilePath |-> "/var/log/app.log"],
      [ServiceName |-> "svc", Pod |-> "pod-1", LogLevel |-> <<"w","a","r","n">>,
       LogAnalyserAddress |-> "logstash:5000", LogAnalyserEnabled |-> TRUE,
       Console |-> TRUE, LogFilePath |-> ""] }

\* goroutine p calls InitLogger(config)
GoInitLogger(p, config) ==
    /\ alive
    /\ pc[p] = "idle"
    /\ pc' = [pc EXCEPT ![p] = "check"]
    /\ loc' = [loc EXCEPT ![p] = [config |-> config, writers |-> << >>]]
    /\ UNCHANGED <<rev, alive, initialized, logger, written, last, firstCfg, fallback, built>>

\* logging.go:37, the flag was set
CheckSeesInitialized(p) ==
    /\ pc[p] = "check"
    /\ AlreadyInitialized
    /\ pc' = [pc EXCEPT ![p] = "warn"]
    /\ UNCHANGED <<rev, alive, initialized, logger, written, last, firstCfg, fallback, built, loc>>

\* logging.go:37, the flag was not set
CheckSeesUninitialized(p) ==
    /\ pc[p] = "check"
    /\ ~AlreadyInitialized
    /\ pc' = [pc EXCEPT ![p] = "compose"]
    /\ UNCHANGED <<rev, alive, initialized, logger, written, last, firstCfg, fallback, built, loc>>

\* logging.go:38-39
WarnAndReturn(p) ==
    /\ pc[p] = "warn"
    /\ LET em == Emitted(logger, "warn", WarnAlready, << >>, NoError) IN
       /\ written' = MultiWrite(logger.writers, em, 0)
       /\ last' = Call("InitLogger", "warn", WarnAlready, << >>, "", em, 0, "return", "already")
    /\ pc' = [pc EXCEPT ![p] = "skipped"]
    /\ UNCHANGED <<rev, alive, initialized, logger, firstCfg, fallback, built, loc>>

\* logging.go:44-82: the file is opened, the collector dialled, the writers combined
ComposeSinks(p) ==
    /\ pc[p] = "compose"
    /\ DialPossible(loc[p].config, loc[p].config.LogAnalyserEnabled)
    /\ loc' = [loc EXCEPT ![p].writers = CombinedWriter(ComposeWriters(loc[p].config))]
    /\ logger' = LoggerAfterFile(loc[p].config)
    /\ pc' = [pc EXCEPT ![p] = "assign"]
    /\ UNCHANGED <<rev, alive, initialized, written, last, firstCfg, fallback, built>>

\* logging.go:107-115
AssignLogger(p) ==
    /\ pc[p] = "assign"
    /\ logger' = BuildLogger(rev, loc[p].config, loc[p].writers)
    /\ pc' = [pc EXCEPT ![p] = "flag"]
    /\ UNCHANGED <<rev, alive, initialized, written, last, firstCfg, fallback, built, loc>>

\* logging.go:117
SetInitialized(p) ==
    /\ pc[p] = "flag"
    /\ initialized' = TRUE
    /\ firstCfg' = IF initialized THEN firstCfg ELSE loc[p].config
    /\ pc' = [pc EXCEPT ![p] = "initialized"]
    /\ UNCHANGED <<rev, alive, logger, written, last, fallback, built, loc>>

NextConc ==
    \E p \in Procs :
        \/ \E c \in ConcConfigs : GoInitLogger(p, c)
        \/ CheckSeesInitialized(p)
        \/ CheckSeesUninitialized(p)
        \/ WarnAndReturn(p)
        \/ ComposeSinks(p)
        \/ AssignLogger(p)
        \/ SetInitialized(p)

SpecConc == Init /\ [][NextConc]_vars

(***************************************************************************)
(* Properties of the facade's life (Spec)                                  *)
(***************************************************************************)
IsLoggingCall == last.op \in {"Leveled", "WithError"}
IsRepeatedInit == last.op = "InitLogger" /\ last.note \in {"already-same", "already-other"}

\* C2: once a call of InitLogger has completed, no later call (of InitLogger
\* or of a logging function) changes the global logger or the flag, and the
\* logger's sinks and level are the ones that first call's Config gives
C2_FirstInitWins ==
    [][ /\ initialized => (initialized' /\ logger' = logger /\ firstCfg' = firstCfg)
        /\ initialized' =>
              /\ logger'.writers = CombinedWriter(ComposeWriters(firstCfg'))
              /\ logger'.level = ConfiguredLevel(rev', firstCfg'.LogLevel) ]_vars

\* an InitLogger call with another Config has returned from the initialized logger
C2_Witness ==
    /\ initialized
    /\ last.op = "InitLogger"
    /\ last.note = "already-other"
    /\ logger.writers = << "stdout", "file" >>

\* the sinks whose Write was called with a record the last call emitted
ReachedSinks(writers, failAt) ==
    { writers[i] : i \in { j \in 1..Len(writers) : failAt = 0 \/ j <= failAt } }

\* C5 as stated: below the minimum level nothing is written, at or above it
\* every active sink is written exactly one record
C5_Original ==
    (initialized /\ IsLoggingCall) =>
        IF LevelNum(last.level) < LevelNum(logger.level)
        THEN \A s \in Sinks : written[s] = << >>
        ELSE \A i \in 1..Len(logger.writers) : Len(written[logger.writers[i]]) = 1

\* C5 amended: below the minimum level nothing is written; at or above it one
\* record goes to the combined writer, which writes it once to each active sink
\* in order, up to and including the first sink whose write fails (to all
\* when none fails), and not to the sinks after that one
C5_LevelFilterAndBroadcast ==
    (initialized /\ IsLoggingCall) =>
        IF LevelNum(last.level) < LevelNum(logger.level)
        THEN last.emitted = << >> /\ \A s \in Sinks : written[s] = << >>
        ELSE /\ Len(last.emitted) = 1
             /\ last.emitted[1].level = last.level
             /\ \A s \in Sinks :
                   written[s] = IF s \in ReachedSinks(logger.writers, last.failAt)
                                THEN last.emitted ELSE << >>
             /\ last.failAt = 0 =>
                   \A i \in 1..Len(logger.writers) : Len(written[logger.writers[i]]) = 1

\* a call above the minimum level on a logger with three sinks, no write failing
C5_Witness ==
    /\ initialized
    /\ IsLoggingCall
    /\ logger.level = "warn"
    /\ last.level = "error"
    /\ Len(logger.writers) = 3
    /\ last.failAt = 0
    /\ \A s \in {"stdout", "file", "logstash"} : Len(written[s]) = 1

\* C6 as stated: InitLogger on an initialized logger emits a warning record
\* whatever the minimum level
C6_Original ==
    IsRepeatedInit => (Len(last.emitted) = 1 /\ last.emitted[1].level = "warn")

\* C6 amended: InitLogger on an initialized logger emits exactly one
\* warning-level record through that logger when its minimum level is warn or
\* lower, and emits nothing when it is error, fatal or panic
C6_WarnIfEnabled ==
    IsRepeatedInit =>
        IF logger.level \in {"trace", "debug", "info", "warn"}
        THEN /\ last.emitted = << Record(logger, "warn", WarnAlready, << >>, NoError) >>
             /\ \A s \in ReachedSinks(logger.writers, last.failAt) : written[s] = last.emitted
        ELSE last.emitted = << >> /\ written = NothingWritten

C6_Witness ==
    /\ IsRepeatedInit
    /\ logger.level = "info"
    /\ Len(last.emitted) = 1
    /\ written["stdout"] = last.emitted

\* c is a Config that NewLogger returns with a nil error
BuilderAccepts(c) ==
    NewLogger(c.ServiceName, c.Console, c.Pod, c.LogFilePath, c.LogAnalyserAddress,
              c.LogLevel, c.LogAnalyserEnabled) = [cfg |-> c, err |-> "nil"]

\* C10: InitLogger with a Config that NewLogger accepted never takes the
\* fall-back-to-stdout branch
C10_Original == (initialized /\ BuilderAccepts(firstCfg)) => ~fallback

(***************************************************************************)
(* Properties of the configuration builder (SpecConfig)                    *)
(***************************************************************************)
\* C1: with console false, logFilePath empty and LogAnalyserEnabled false,
\* NewLogger returns an error and the zero-value Config, whatever the address
C1_Original ==
    (last.op = "NewLogger" /\ ~last.args.console /\ last.args.logFilePath = ""
        /\ ~last.args.LogAnalyserEnabled)
    => (built.err # "nil" /\ built.cfg = ZeroConfig)

(***************************************************************************)
(* Properties of the level string (SpecLevel)                              *)
(***************************************************************************)
\* the level a string names, whatever its letter case; info when it names none
NamedLevel(s) ==
    IF \E n \in Levels : Spells(s, n)
    THEN CHOOSE n \in Levels : Spells(s, n)
    ELSE "info"

\* C7: after InitLogger the minimum level is the level the configured string
\* names in any letter case, and info for every other string
C7_LevelOfString ==
    initialized => logger.level = NamedLevel(firstCfg.LogLevel)

\* a mixed-case name was configured and took effect
C7_Witness ==
    /\ initialized
    /\ firstCfg.LogLevel = <<"w","A","r","N">>
    /\ logger.level = "warn"

(***************************************************************************)
(* Properties of the field lists (SpecFields)                              *)
(***************************************************************************)
IsString(x) == x.t = "string"

\* the pairs of an even-length variadic list
PairCount(fields) == Len(fields) \div 2
PairOK(fields, j) == IsString(fields[2 * j - 1]) /\ IsString(fields[2 * j])
PairOf(fields, j) == [key |-> fields[2 * j - 1].v, val |-> fields[2 * j].v]

\* odd length, or a pair whose key or value is not a string
Malformed(fields) ==
    \/ Len(fields) % 2 = 1
    \/ \E j \in 1..PairCount(fields) : ~PairOK(fields, j)

HasKey(recFields, k) == \E i \in 1..Len(recFields) : recFields[i].key = k

\* the last call was Level(message, fields...) of the variadic revision with
\* a malformed list, at an enabled level
MalformedCall ==
    /\ rev = "variadic"
    /\ last.op = "Leveled"
    /\ Malformed(last.fields)
    /\ should(logger, last.level)

\* C3: such a call returns normally and emits exactly one record, which has
\* the original message and a fields_error field
C3_MalformedStillLogs ==
    MalformedCall =>
        /\ last.outcome = "return"
        /\ Len(last.emitted) = 1
        /\ last.emitted[1].message = last.message
        /\ last.emitted[1].level = last.level
        /\ HasKey(last.emitted[1].fields, "fields_error")

\* Fatal("msg", "k", 42) on the initialized logger: one record, and the process lives
C3_Witness ==
    /\ MalformedCall
    /\ initialized
    /\ last.level = "fatal"
    /\ last.fields = << StringValue("k"), IntValue("42") >>
    /\ Len(last.emitted) = 1
    /\ alive

\* C8 as stated: the record of a malformed call carries fields_error and none
\* of the caller's pairs
C8_Original ==
    MalformedCall =>
        /\ HasKey(last.emitted[1].fields, "fields_error")
        /\ \A j \in 1..PairCount(last.fields) :
              PairOK(last.fields, j) =>
                 \A i \in 1..Len(last.emitted[1].fields) :
                    last.emitted[1].fields[i] # PairOf(last.fields, j)

\* the first pair that is not two strings
FirstBadPair(fields) ==
    CHOOSE j \in 1..PairCount(fields) :
        ~PairOK(fields, j) /\ \A h \in 1..(j - 1) : PairOK(fields, h)

\* C8 amended: an odd-length list leaves fields_error as the record's only
\* field; an even-length list with a non-string pair leaves the well-formed
\* pairs before the first such pair, in order, followed by fields_error, and
\* nothing of that pair or of the pairs after it
C8_PrefixThenDiagnostic ==
    MalformedCall =>
        last.emitted[1].fields =
            IF Len(last.fields) % 2 = 1
            THEN << FieldsError(ErrUneven) >>
            ELSE [j \in 1..(FirstBadPair(last.fields) - 1) |-> PairOf(last.fields, j)]
                    \o << FieldsError(ErrNotStrings) >>

\* a well-formed pair before the offending pair stays in the record
C8_Witness ==
    /\ MalformedCall
    /\ last.fields = << StringValue("k"), StringValue("v"), StringValue("k"), IntValue("42") >>
    /\ last.emitted[1].fields = << [key |-> "k", val |-> "v"], FieldsError(ErrNotStrings) >>

\* the record carries the error and its stack trace
CarriesError(rec, err) ==
    \/ rec.error = [attached |-> TRUE, msg |-> err, stack |-> TRUE]
    \/ HasKey(rec.fields, "error")

\* the record carries each field the caller gave
CarriesFields(rec, fields) ==
    IF rev = "typed"
    THEN \A i \in 1..Len(fields) :
            \E h \in 1..Len(rec.fields) :
               rec.fields[h] = [key |-> fields[i].Key, val |-> fields[i].Value]
    ELSE \A j \in 1..PairCount(fields) :
            \E h \in 1..Len(rec.fields) : rec.fields[h] = PairOf(fields, j)

WellFormedCallerFields == rev = "variadic" => ~Malformed(last.fields)

\* C4: LevelWithError(err, fields...) with well-formed fields at an enabled
\* level emits exactly one record: its message is err.Error(), it carries the
\* error with its stack trace, and it carries each additional field
C4_Original ==
    (last.op = "WithError" /\ WellFormedCallerFields /\ should(logger, last.level)) =>
        /\ Len(last.emitted) = 1
        /\ last.emitted[1].message = last.err
        /\ CarriesError(last.emitted[1], last.err)
        /\ CarriesFields(last.emitted[1], last.fields)

(***************************************************************************)
(* Properties of concurrent initialization (SpecConc)                      *)
(***************************************************************************)
\* the calls that composed sinks and went on to assign the global logger
Composers == { p \in Procs : pc[p] \in {"assign", "flag", "initialized"} }

\* C9: whatever the interleaving, at most one call composes sinks and assigns
\* the global logger; the others take the already-initialized branch
C9_Original ==
    /\ Cardinality(Composers) <= 1
    /\ (\A p \in Procs : pc[p] \in {"skipped", "initialized"}) =>
          Cardinality({ p \in Procs : pc[p] = "initialized" }) = 1

====
